---------------------------- MODULE Spec2Model ----------------------------
(***************************************************************************)
(* Model of src/app.py: the Streamlit "Dropshipping Strategy Generator".   *)
(*                                                                         *)
(* The script is re-executed from top to bottom on every user interaction. *)
(* One execution is the action predicate Script; the user interactions     *)
(* (editing a text field, pressing the button, picking a radio option)     *)
(* are the actions, each of which runs Script once.                        *)
(*                                                                         *)
(* Python values are represented as follows.                               *)
(*   str            a TLA+ string                                          *)
(*   JSON value     a tagged pair: <<"str", s>>, <<"num", s>>,             *)
(*                  <<"list", items>>, <<"obj", f>> (f a function on the   *)
(*                  member names that are present)                         *)
(*   dict           a sequence of <<key, value>> pairs in insertion order  *)
(*   None / a value the empty sequence / a one-element sequence            *)
(***************************************************************************)
EXTENDS Integers, Sequences, FiniteSets, TLC

(***************************************************************************)
(* Bounds of the model.                                                    *)
(***************************************************************************)
MaxAngles == 2          \* longest sales_angles list a response carries

(***************************************************************************)
(* Small input alphabets.                                                  *)
(***************************************************************************)
ApiKeys      == {"", "sk-1"}
ProductNames == {"", "Blender", "Mixer"}
ReviewTexts  == {"", "too loud"}

(***************************************************************************)
(* JSON values (what json.loads returns).                                  *)
(***************************************************************************)
JStr(s)      == <<"str", s>>
JNum         == <<"num", "7">>
JList(items) == <<"list", items>>
JObj(f)      == <<"obj", f>>

Without(f, k) == [x \in (DOMAIN f) \ {k} |-> f[x]]

SeqsUpTo(S, n) == UNION {[1..m -> S] : m \in 0..n}

AngleFields(a, p, c) ==
    [avatar_name |-> JStr(a), pain_point_addressed |-> JStr(p),
     persuasive_copy |-> JStr(c)]

\* well-typed sales angle objects: a repeated name and a second name
GoodAngleFields ==
    { AngleFields("Skeptic", "noise", "buy"), AngleFields("Skeptic", "noise", "try"),
      AngleFields("Saver", "noise", "buy") }

\* a well-typed sales angle object whose name is the empty string
EmptyNameAngle == JObj(AngleFields("", "noise", "buy"))

BaseAngleFields == AngleFields("Skeptic", "noise", "buy")

\* sales angle objects with one defect each: a member absent, or not a string
BadAngleFields ==
    { Without(BaseAngleFields, k) :
        k \in {"avatar_name", "pain_point_addressed", "persuasive_copy"} }
    \cup { [BaseAngleFields EXCEPT !["avatar_name"] = JNum] }

GoodAngles == { JObj(f) : f \in GoodAngleFields }
BadAngles  == { JObj(f) : f \in BadAngleFields }

\* lists of well-typed angles, and such lists with one defective angle put
\* in front of or behind them
JsonAngleLists ==
    { JList(s) : s \in SeqsUpTo(GoodAngles, MaxAngles) }
    \cup { JList(s \o <<b>>) : s \in SeqsUpTo(GoodAngles, MaxAngles - 1), b \in BadAngles }
    \cup { JList(<<b>> \o s) : s \in SeqsUpTo(GoodAngles, MaxAngles - 1), b \in BadAngles }
    \cup { JList(<<EmptyNameAngle>>),
           JList(<<EmptyNameAngle, JObj(BaseAngleFields)>>),
           JList(<<JObj(BaseAngleFields), EmptyNameAngle>>) }

GoodPainList == JList(<<JStr("noise")>>)

\* the JSON documents a completion can carry
JsonDocuments ==
    { JObj([main_pain_points |-> GoodPainList, sales_angles |-> l]) :
        l \in JsonAngleLists }
    \cup { JObj([main_pain_points |-> JList(<<>>), sales_angles |-> JList(<<>>)]),
           JObj([main_pain_points |-> JList(<<JStr("x")>>)]),
           JObj([sales_angles |-> JList(<<JObj(BaseAngleFields)>>)]),
           JObj([main_pain_points |-> JNum,
                 sales_angles |-> JList(<<JObj(BaseAngleFields)>>)]),
           JObj([main_pain_points |-> GoodPainList, sales_angles |-> JNum]),
           JObj([main_pain_points |-> JList(<<JNum>>),
                 sales_angles |-> JList(<<JObj(BaseAngleFields)>>)]),
           JObj([main_pain_points |-> GoodPainList,
                 sales_angles |-> JList(<<JObj(BaseAngleFields)>>),
                 extra |-> JStr("x")]),
           JList(<<>>) }

(***************************************************************************)
(* What client.chat.completions.create can do: raise, or return a message  *)
(* whose content is None, or text that is the serialisation of a JSON      *)
(* document, or text that is not JSON.                                      *)
(***************************************************************************)
ApiRaises     == <<"raise", "APIError">>
NullContent   == <<"content", "none">>
JsonText(doc) == <<"content", "text", "json", doc>>
NotJsonText   == <<"content", "text", "raw", "not json">>

Completions ==
    {ApiRaises, NullContent, NotJsonText} \cup { JsonText(d) : d \in JsonDocuments }


(***************************************************************************)
(* json.loads on the message content.  The result is <<"ok", value>> or    *)
(* <<"raise", exception>>: None is not a str (TypeError), text that is not *)
(* JSON raises JSONDecodeError.                                            *)
(***************************************************************************)
json_loads(content) ==
    IF content[2] = "none" THEN <<"raise", "TypeError">>
    ELSE IF content[3] = "json" THEN <<"ok", content[4]>>
    ELSE <<"raise", "JSONDecodeError">>

(***************************************************************************)
(* The pydantic schema.  A str field accepts a JSON string only; a field   *)
(* declared with Field(...) is required; unknown members are ignored.      *)
(***************************************************************************)
IsStr(v) == v[1] = "str"

Has(v, k) == v[1] = "obj" /\ k \in DOMAIN v[2]

SalesAngleValid(v) ==
    /\ v[1] = "obj"
    /\ \A k \in {"avatar_name", "pain_point_addressed", "persuasive_copy"} :
          Has(v, k) /\ IsStr(v[2][k])

SalesAngle(v) ==
    [avatar_name          |-> v[2]["avatar_name"][2],
     pain_point_addressed |-> v[2]["pain_point_addressed"][2],
     persuasive_copy      |-> v[2]["persuasive_copy"][2]]

StrategyOutputValid(v) ==
    /\ v[1] = "obj"
    /\ Has(v, "main_pain_points")
    /\ v[2]["main_pain_points"][1] = "list"
    /\ \A i \in DOMAIN v[2]["main_pain_points"][2] :
          IsStr(v[2]["main_pain_points"][2][i])
    /\ Has(v, "sales_angles")
    /\ v[2]["sales_angles"][1] = "list"
    /\ \A i \in DOMAIN v[2]["sales_angles"][2] :
          SalesAngleValid(v[2]["sales_angles"][2][i])

StrategyOutput(v) ==
    [main_pain_points |-> [i \in DOMAIN v[2]["main_pain_points"][2] |->
                              v[2]["main_pain_points"][2][i][2]],
     sales_angles     |-> [i \in DOMAIN v[2]["sales_angles"][2] |->
                              SalesAngle(v[2]["sales_angles"][2][i])]]

\* StrategyOutput.model_validate
model_validate(v) ==
    IF StrategyOutputValid(v) THEN <<"ok", StrategyOutput(v)>>
    ELSE <<"raise", "ValidationError">>

(***************************************************************************)
(* Python dict, insertion ordered: d[k] = v, list(d.keys()), d[k].         *)
(***************************************************************************)
Keys(d) == [i \in DOMAIN d |-> d[i][1]]

KeySet(d) == { d[i][1] : i \in DOMAIN d }

\* variant: an existing key keeps its first value
DictSetFirstWins(d, k, v) ==
    IF k \in KeySet(d) THEN d ELSE Append(d, <<k, v>>)

DictSet(d, k, v) ==
    IF k \in KeySet(d)
    THEN [i \in DOMAIN d |-> IF d[i][1] = k THEN <<k, v>> ELSE d[i]]
    ELSE Append(d, <<k, v>>)

DictGet(d, k) == d[CHOOSE i \in DOMAIN d : d[i][1] = k][2]

RECURSIVE AnglesFrom(_, _)
\* {angle.avatar_name: angle for angle in sales_angles}, from position i on
AnglesFrom(sales_angles, d) ==
    IF sales_angles = <<>> THEN d
    ELSE AnglesFrom(Tail(sales_angles),
                    DictSet(d, Head(sales_angles).avatar_name, Head(sales_angles)))

AnglesDict(sales_angles) == AnglesFrom(sales_angles, <<>>)


(***************************************************************************)
(* The try block of the button handler: the completion call, json.loads    *)
(* and model_validate, in that order; the first exception ends it.         *)
(***************************************************************************)
TryBlock(completion) ==
    IF completion[1] = "raise" THEN completion
    ELSE LET response_json == json_loads(completion)
         IN  IF response_json[1] = "raise" THEN response_json
             ELSE model_validate(response_json[2])

\* session_state['strategy'] = ...; session_state['angles'] = {...}
Store(state, strategy_output) ==
    [key \in (DOMAIN state) \cup {"strategy", "angles"} |->
        IF key = "strategy" THEN strategy_output
        ELSE IF key = "angles" THEN AnglesDict(strategy_output.sales_angles)
        ELSE state[key]]

\* variant: a failed attempt drops the previous result
AfterTryClearing(state, completion) ==
    LET result == TryBlock(completion)
    IN  IF result[1] = "ok" THEN Store(state, result[2])
        ELSE [key \in (DOMAIN state) \ {"strategy", "angles"} |-> state[key]]

\* the session state the try block leaves behind
AfterTry(state, completion) ==
    LET result == TryBlock(completion)
    IN  IF result[1] = "ok" THEN Store(state, result[2]) ELSE state

(***************************************************************************)
(* The except clauses, in source order, and the message each one shows.    *)
(* Every exception modelled derives from Exception; ValidationError and    *)
(* JSONDecodeError do not derive from one another.                         *)
(***************************************************************************)
\* variant: no clause for JSONDecodeError
ExceptClausesNoDecode == <<"ValidationError", "Exception">>

\* variant: the broad clause comes first
ExceptClausesBroadFirst == <<"Exception", "ValidationError", "JSONDecodeError">>

ExceptClauses == <<"ValidationError", "JSONDecodeError", "Exception">>

IsInstance(exc, cls) == cls = exc \/ cls = "Exception"

ClauseMessage(cls) ==
    CASE cls = "ValidationError"  -> "SchemaViolation"
      [] cls = "JSONDecodeError"  -> "MalformedOutput"
      [] cls = "Exception"        -> "TransportFailure"
      [] OTHER                    -> "Unhandled"

Handler(exc) ==
    LET matching == { i \in DOMAIN ExceptClauses : IsInstance(exc, ExceptClauses[i]) }
    IN  IF matching = {} THEN "Unhandled"
        ELSE ClauseMessage(ExceptClauses[CHOOSE i \in matching :
                                            \A j \in matching : i <= j])

\* variant: "and" in place of "or"
InputsMissingBoth(p, r) == p = "" /\ r = ""

\* not product_name or not competitor_reviews
InputsMissing(p, r) == p = "" \/ r = ""

(***************************************************************************)
(* The output section.                                                     *)
(***************************************************************************)
\* variant: a placeholder entry heads the options
angle_options_placeholder(state) == <<"(ninguno)">> \o Keys(state["angles"])

angle_options(state) == Keys(state["angles"])

\* st.radio(label, options, key="angle_selector"): the option at the index
\* the widget holds, the first option for a new widget, None without options.
\* The widget is a new one when its options differ from the last run's.
radio(options, widget) ==
    LET index == IF widget # <<>> /\ widget[1] = options THEN widget[2] ELSE 1
    IN  IF options = <<>> THEN <<>> ELSE <<options[index]>>

\* if selected_angle_name:
Truthy(selected) == selected # <<>> /\ selected[1] # ""

\* variant: the title leaves the product name out
shopify_title_no_product(selected_angle, p) ==
    "¡" \o selected_angle.avatar_name \o " Resuelto!"

shopify_title(selected_angle, p) ==
    "¡" \o selected_angle.avatar_name \o " Resuelto! El " \o p

ShopifyJson(selected_angle, p) ==
    [type     |-> "hero_section",
     name     |-> "Hero Section - Generated by AI",
     settings |-> << [type |-> "text", id |-> "heading", label |-> "Heading",
                      default |-> shopify_title(selected_angle, p)],
                     [type |-> "textarea", id |-> "text", label |-> "Text",
                      default |-> selected_angle.persuasive_copy],
                     [type |-> "url", id |-> "button_link", label |-> "Button link"],
                     [type |-> "text", id |-> "button_label", label |-> "Button label",
                      default |-> "Comprar Ahora"] >>]

(***************************************************************************)
(* For the properties: the class of the completion a run consumed.         *)
(***************************************************************************)
AngleMembers == {"avatar_name", "pain_point_addressed", "persuasive_copy"}

LacksRequired(doc) ==
    /\ doc[1] = "obj"
    /\ \/ ~Has(doc, "main_pain_points")
       \/ ~Has(doc, "sales_angles")
       \/ /\ doc[2]["sales_angles"][1] = "list"
          /\ \E i \in DOMAIN doc[2]["sales_angles"][2] :
               /\ doc[2]["sales_angles"][2][i][1] = "obj"
               /\ \E k \in AngleMembers : k \notin DOMAIN doc[2]["sales_angles"][2][i][2]

ClassOf(completion) ==
    IF completion[1] = "raise" THEN "api_error"
    ELSE IF completion[2] = "none" THEN "no_content"
    ELSE IF completion[3] # "json" THEN "not_json"
    ELSE IF LacksRequired(completion[4]) THEN "lacks_required"
    ELSE "other_json"

(***************************************************************************)
(* State.                                                                  *)
(***************************************************************************)
VARIABLES
    openai_api_key,       \* sidebar text input
    product_name,         \* text input "product_name_input"
    competitor_reviews,   \* text area "reviews_input"
    session_state,        \* st.session_state: function on the keys present
    angle_selector,       \* radio widget: <<>> or <<options, index>>
    button_shown,         \* the last run rendered the inputs and the button
    generate_pressed,     \* the last run was started by the button
    message,              \* the status message the last run showed, or ""
    calls,                \* completion calls the last run made
    response_class,       \* class of the completion the last run consumed
    selected_angle_name,  \* what st.radio returned in the last run, or <<>>
    shopify_json_data,    \* the document the last run rendered, or <<>>
    fault,                \* exception that escaped the last run, or ""
    generated_for         \* <<product_name>> of the run that wrote the store

vars == <<openai_api_key, product_name, competitor_reviews, session_state,
          angle_selector, button_shown, generate_pressed, message, calls,
          response_class, selected_angle_name, shopify_json_data, fault,
          generated_for>>

ErrorKinds == {"MissingCredential", "MissingInput", "TransportFailure",
               "MalformedOutput", "SchemaViolation"}

(***************************************************************************)
(* One execution of the script with the widget values k, p, r, the button  *)
(* state, the outcome of constructing the client, the completion the call  *)
(* would obtain, and the radio widget's state.                             *)
(***************************************************************************)
Script(k, p, r, pressed, client_ok, completion, widget) ==
    LET reached   == k # "" /\ client_ok
        attempt   == reached /\ pressed
        called    == attempt /\ ~InputsMissing(p, r)
        result    == IF called THEN TryBlock(completion) ELSE <<"skip">>
        raised    == called /\ result[1] = "raise"
        after     == IF called THEN AfterTry(session_state, completion)
                               ELSE session_state
        msg       == IF k = "" THEN "MissingCredential"
                     ELSE IF ~client_ok THEN "ClientInitError"
                     ELSE IF ~pressed THEN ""
                     ELSE IF ~called THEN "MissingInput"
                     ELSE IF raised THEN Handler(result[2])
                     ELSE "Success"
        stopped   == ~reached \/ raised
        shown     == ~stopped /\ "strategy" \in DOMAIN after
        options   == IF shown THEN angle_options(after) ELSE <<>>
        selected  == IF shown THEN radio(options, widget) ELSE <<>>
        guarded   == shown /\ Truthy(selected)
        found     == guarded /\ selected[1] \in KeySet(after["angles"])
    IN  /\ openai_api_key' = k
        /\ product_name' = p
        /\ competitor_reviews' = r
        /\ session_state' = after
        /\ angle_selector' = IF shown
                             THEN <<options, IF widget # <<>> /\ widget[1] = options
                                             THEN widget[2] ELSE 1>>
                             ELSE <<>>
        /\ button_shown' = reached
        /\ generate_pressed' = pressed
        /\ message' = msg
        /\ calls' = IF called THEN 1 ELSE 0
        /\ response_class' = IF called THEN ClassOf(completion) ELSE "not_called"
        /\ selected_angle_name' = selected
        /\ shopify_json_data' =
              IF found
              THEN <<ShopifyJson(DictGet(after["angles"], selected[1]), p)>>
              ELSE <<>>
        /\ fault' = IF msg = "Unhandled" THEN "Unhandled"
                    ELSE IF guarded /\ ~found THEN "KeyError"
                    ELSE ""
        /\ generated_for' = IF called /\ ~raised THEN <<p>> ELSE generated_for

(***************************************************************************)
(* The first run of a session: every widget empty, nothing stored.         *)
(***************************************************************************)
Init ==
    /\ openai_api_key = ""
    /\ product_name = ""
    /\ competitor_reviews = ""
    /\ session_state = <<>>
    /\ angle_selector = <<>>
    /\ button_shown = FALSE
    /\ generate_pressed = FALSE
    /\ message = "MissingCredential"
    /\ calls = 0
    /\ response_class = "not_called"
    /\ selected_angle_name = <<>>
    /\ shopify_json_data = <<>>
    /\ fault = ""
    /\ generated_for = <<>>

(***************************************************************************)
(* User interactions.  Each one re-runs the script.                        *)
(***************************************************************************)
EditApiKey ==
    \E k \in ApiKeys \ {openai_api_key}, client_ok \in BOOLEAN :
        Script(k, product_name, competitor_reviews, FALSE, client_ok,
               NullContent, angle_selector)

EditProductName ==
    /\ button_shown
    /\ \E p \in ProductNames \ {product_name}, client_ok \in BOOLEAN :
          Script(openai_api_key, p, competitor_reviews, FALSE, client_ok,
                 NullContent, angle_selector)

EditReviews ==
    /\ button_shown
    /\ \E r \in ReviewTexts \ {competitor_reviews}, client_ok \in BOOLEAN :
          Script(openai_api_key, product_name, r, FALSE, client_ok,
                 NullContent, angle_selector)

\* the button, possibly pressed while an edit of the key field is uncommitted
PressGenerate ==
    /\ button_shown
    /\ \E k \in ApiKeys, client_ok \in BOOLEAN :
          \E completion \in IF k # "" /\ client_ok
                                /\ ~InputsMissing(product_name, competitor_reviews)
                             THEN Completions ELSE {NullContent} :
             Script(k, product_name, competitor_reviews, TRUE, client_ok,
                    completion, angle_selector)

SelectAngle ==
    /\ angle_selector # <<>>
    /\ \E i \in DOMAIN angle_selector[1], client_ok \in BOOLEAN :
          /\ i # angle_selector[2]
          /\ Script(openai_api_key, product_name, competitor_reviews, FALSE,
                    client_ok, NullContent, <<angle_selector[1], i>>)

Next ==
    \/ EditApiKey
    \/ EditProductName
    \/ EditReviews
    \/ PressGenerate
    \/ SelectAngle

Spec == Init /\ [][Next]_vars


(***************************************************************************)
(* Properties.                                                             *)
(***************************************************************************)
Contains(s, sub) ==
    \E i \in 1..(Len(s) - Len(sub) + 1) : SubSeq(s, i, i + Len(sub) - 1) = sub

HasStore == "strategy" \in DOMAIN session_state

StoredAngles == session_state["strategy"].sales_angles

\* C1: a generation attempt that ends in one of the five error kinds leaves
\* session_state (the 'strategy' and 'angles' entries) exactly as it was
\* before the attempt.
C1_FailedAttemptKeepsStore ==
    [][ (generate_pressed' /\ message' \in ErrorKinds)
           => session_state' = session_state ]_vars

\* a malformed response arrived while an earlier result was stored
C1_Witness ==
    /\ generate_pressed
    /\ message = "MalformedOutput"
    /\ HasStore
    /\ StoredAngles # <<>>

\* C2: whenever the run reports success, the stored StrategyOutput has a
\* non-empty sales_angles list.
C2_SuccessHasAngles ==
    message = "Success" => StoredAngles # <<>>

\* C3: whenever a result is stored, every SalesAngle in it has a non-empty
\* avatar_name, pain_point_addressed and persuasive_copy.
C3_StoredFieldsNonEmpty ==
    HasStore =>
        \A i \in DOMAIN StoredAngles :
            /\ StoredAngles[i].avatar_name # ""
            /\ StoredAngles[i].pain_point_addressed # ""
            /\ StoredAngles[i].persuasive_copy # ""

LastIndexOf(sales_angles, name) ==
    CHOOSE i \in DOMAIN sales_angles :
        /\ sales_angles[i].avatar_name = name
        /\ \A j \in DOMAIN sales_angles :
              sales_angles[j].avatar_name = name => j <= i

\* C4: the lookup is derived from the stored StrategyOutput alone: it exists
\* exactly when the result does, its keys are the avatar names of the
\* current sales_angles, each once, and each key maps to the last angle
\* carrying that name.
C4_LookupFromCurrentResult ==
    /\ HasStore <=> "angles" \in DOMAIN session_state
    /\ HasStore =>
         LET lookup == session_state["angles"]
         IN  /\ KeySet(lookup) = { StoredAngles[i].avatar_name : i \in DOMAIN StoredAngles }
             /\ \A i, j \in DOMAIN lookup : lookup[i][1] = lookup[j][1] => i = j
             /\ \A i \in DOMAIN lookup :
                   lookup[i][2] = StoredAngles[LastIndexOf(StoredAngles, lookup[i][1])]

\* the stored result carries one name twice with different copy
C4_Witness ==
    /\ HasStore
    /\ \E i, j \in DOMAIN StoredAngles :
          /\ i < j
          /\ StoredAngles[i].avatar_name = StoredAngles[j].avatar_name
          /\ StoredAngles[i] # StoredAngles[j]
    /\ Len(session_state["angles"]) < Len(StoredAngles)

C7_LacksRequiredIsSchemaViolation ==
    [][ response_class' = "lacks_required"
           => message' = "SchemaViolation" /\ session_state' = session_state ]_vars

\* such a completion arrived while an earlier result was stored
C7_Witness ==
    /\ response_class = "lacks_required"
    /\ generate_pressed
    /\ HasStore

Setting(id) ==
    shopify_json_data[1].settings[
        CHOOSE i \in DOMAIN shopify_json_data[1].settings :
            shopify_json_data[1].settings[i].id = id]

SelectedAngle == DictGet(session_state["angles"], selected_angle_name[1])

\* C8: a rendered document has exactly the four settings heading, text,
\* button_link and button_label; the heading default contains the selected
\* angle's avatar_name and the product name, the text default is the
\* selected angle's persuasive_copy, button_link has no default and
\* button_label defaults to the fixed call-to-action label.
C8_RenderedTemplate ==
    shopify_json_data # <<>> =>
        /\ [i \in DOMAIN shopify_json_data[1].settings |->
               shopify_json_data[1].settings[i].id]
             = <<"heading", "text", "button_link", "button_label">>
        /\ SelectedAngle.avatar_name = selected_angle_name[1]
        /\ Contains(Setting("heading").default, SelectedAngle.avatar_name)
        /\ Contains(Setting("heading").default, product_name)
        /\ Setting("text").default = SelectedAngle.persuasive_copy
        /\ "default" \notin DOMAIN Setting("button_link")
        /\ Setting("button_label").default = "Comprar Ahora"

\* the second option is selected and rendered with a product name
C8_Witness ==
    /\ shopify_json_data # <<>>
    /\ product_name = "Blender"
    /\ selected_angle_name = <<"Saver">>

\* C9: the rendered heading contains the product name that was supplied to
\* the generation that produced the stored result.
C9_HeadingHasGenerationProduct ==
    shopify_json_data # <<>> =>
        Contains(Setting("heading").default, generated_for[1])

\* C10: a selected name that passes the truthiness guard is a key of the
\* current lookup, and the lookup never fails with a missing key.
C10_SelectedIsKey ==
    /\ Truthy(selected_angle_name) =>
          /\ HasStore
          /\ selected_angle_name[1] \in KeySet(session_state["angles"])
    /\ fault # "KeyError"

\* the user picked the second option of two
C10_Witness ==
    /\ angle_selector # <<>>
    /\ Len(angle_selector[1]) = 2
    /\ angle_selector[2] = 2
    /\ Truthy(selected_angle_name)

=============================================================================
